---- MODULE Spec2Model ----
(***************************************************************************)
(* Verification model of the Noah.Genesis backend:                         *)
(*   - the chat endpoint handle_chat_message (api/v1/endpoints/chat.py)    *)
(*     with its collaborators save_interaction / load_session_history      *)
(*     (agent/memory.py), create_interaction_history_entry and             *)
(*     list_interaction_history_for_session (services/firestore_service),  *)
(*     get_llm_response (services/llm_service.py);                         *)
(*   - the LangGraph agent graph of agent/graph.py (nodes, conditional     *)
(*     edge, run_agent_test);                                              *)
(*   - the knowledge-base tool of agent/tools.py;                          *)
(*   - the history endpoint get_session_history (endpoints/history.py);    *)
(*   - run_add_todo_task_workflow of the orchestration groundwork.         *)
(*                                                                         *)
(* Texts are sequences of tokens: a Python str is the sequence of its      *)
(* parts, "" is <<>>, s.startswith(p) is Head(s) = p, `d in s` is          *)
(* membership of the token d, and None is the one-token text NoneText.     *)
(***************************************************************************)
EXTENDS Integers, Sequences, FiniteSets, TLC

VARIABLES
    store,      \* Firestore collection interaction_history, in commit order
    clock,      \* the latest reading of the wall clock taken by utcnow()
    turns,      \* one record per in-flight call of handle_chat_message
    g,          \* the AgentState threaded through one run of the agent graph
    gctl,       \* position and bookkeeping of run_agent_test
    tx          \* one invocation of a tool entry point and its result

vars == <<store, clock, turns, g, gctl, tx>>

----------------------------------------------------------------------------
(* Bounds of the model *)

NumTurns == 2          \* concurrent calls of handle_chat_message
MaxClock == 1          \* wall-clock readings range over 0..MaxClock
MaxBatch == 2          \* longest batch of tool calls the model hands out
MaxDocs == 3           \* most documents in the store when history is read back
MaxChain == 2          \* run_agent_test calls chained on their histories

----------------------------------------------------------------------------
(* Python values *)

NoneText == <<"<None>">>
Absent   == "<absent>"      \* a dict key / attribute that is not there
NoEntry  == [absent |-> TRUE]

IsNone(x)  == x = NoneText
Truthy(x)  == x # NoneText /\ x # <<>>
Get(v, default) == IF v = Absent THEN default ELSE v
Contains(text, tok) == \E i \in 1..Len(text) : text[i] = tok
StartsWith(text, tok) == Len(text) > 0 /\ text[1] = tok

\* a list left as it is
NotReversed(s) == s

RECURSIVE Reverse(_)
Reverse(s) == IF s = <<>> THEN <<>> ELSE Append(Reverse(Tail(s)), Head(s))

Take(s, n) == SubSeq(s, 1, IF Len(s) < n THEN Len(s) ELSE n)

----------------------------------------------------------------------------
(* Message store: services/firestore_service.py, agent/memory.py *)

USER  == "user"
AGENT == "agent"

NoneList == [none |-> TRUE, items |-> <<>>]
ListOf(s) == [none |-> FALSE, items |-> s]
Falsy(l) == l.none \/ l.items = <<>>

\* a clock whose readings may go back
utcnow_unordered == 0..MaxClock

\* datetime.now(timezone.utc): a reading never earlier than the last one taken
utcnow == clock..MaxClock

InteractionHistoryCreate(session_id, user_id, actor, message_content, tool_calls, tool_responses) ==
    [session_id |-> session_id, user_id |-> user_id, actor |-> actor,
     message_content |-> message_content,
     tool_calls |-> tool_calls, tool_responses |-> tool_responses]

\* create_interaction_history_entry up to its await: the document to add,
\* stamped with the logging time
entry_doc_data(entry_data, current_time) ==
    [session_id |-> entry_data.session_id, user_id |-> entry_data.user_id,
     actor |-> entry_data.actor,
     message_content |-> entry_data.message_content,
     tool_calls |-> entry_data.tool_calls,
     tool_responses |-> entry_data.tool_responses,
     timestamp |-> current_time]

\* collection_ref.add: Firestore assigns the document id
doc_ref_id(docs) == "doc" \o ToString(Len(docs) + 1)

InteractionHistory(interaction_id, doc) ==
    [interaction_id |-> interaction_id,
     session_id |-> doc.session_id, user_id |-> doc.user_id,
     actor |-> doc.actor, message_content |-> doc.message_content,
     tool_calls |-> doc.tool_calls, tool_responses |-> doc.tool_responses,
     timestamp |-> doc.timestamp]

\* the store after the documents were added one by one, each with the
\* timestamp its request read (requests overlap: any arrival order)
RECURSIVE StoreOf(_)
StoreOf(docs) ==
    IF docs = <<>> THEN <<>>
    ELSE LET before == StoreOf(SubSeq(docs, 1, Len(docs) - 1))
         IN Append(before, InteractionHistory(doc_ref_id(before), docs[Len(docs)]))

\* The orders in which a query ordered by timestamp may stream the documents
\* idx (indices into docs): equal timestamps come in any order.
RECURSIVE OrderedByTimestamp(_, _, _)
OrderedByTimestamp(docs, idx, descending) ==
    IF idx = {} THEN {<<>>}
    ELSE LET first == {i \in idx : \A j \in idx :
                          IF descending
                          THEN docs[j].timestamp <= docs[i].timestamp
                          ELSE docs[i].timestamp <= docs[j].timestamp}
         IN UNION {{<<i>> \o r : r \in OrderedByTimestamp(docs, idx \ {i}, descending)}
                   : i \in first}

\* list_interaction_history_for_session: the set of possible results
list_interaction_history_for_session(docs, session_id, limit, descending) ==
    LET idx == {i \in 1..Len(docs) : docs[i].session_id = session_id}
    IN {[k \in 1..Len(Take(o, limit)) |-> docs[o[k]]]
        : o \in OrderedByTimestamp(docs, idx, descending)}

HumanMessage(content) ==
    [type |-> "human", content |-> content, tool_calls |-> <<>>,
     tool_call_id |-> Absent, name |-> Absent]
AIMessage(content, tool_calls) ==
    [type |-> "ai", content |-> content, tool_calls |-> tool_calls,
     tool_call_id |-> Absent, name |-> Absent]
ToolMessage(content, tool_call_id, name) ==
    [type |-> "tool", content |-> content, tool_calls |-> <<>>,
     tool_call_id |-> tool_call_id, name |-> name]

\* ToolResponse.content is Any, kept with its Python type: a str (a text),
\* a dict ([result |-> text]) or an int
ToolResponse(tool_call_id, name, content) ==
    [tool_call_id |-> tool_call_id, name |-> name, content |-> content]

\* json.dumps of a dict / str() of any other value
json_dumps(d) == <<"{\"result\": \"">> \o d.result \o <<"\"}">>
tool_output_content_str(content) ==
    IF content.kind = "str" THEN content.value
    ELSE IF content.kind = "dict" THEN json_dumps(content.value)
    ELSE <<ToString(content.value)>>

RECURSIVE ToolMessagesOf(_)
ToolMessagesOf(tool_responses) ==
    IF tool_responses = <<>> THEN <<>>
    ELSE <<ToolMessage(tool_output_content_str(Head(tool_responses).content),
                       Head(tool_responses).tool_call_id,
                       Head(tool_responses).name)>>
         \o ToolMessagesOf(Tail(tool_responses))

\* the loop of load_session_history over the (already reversed) documents
RECURSIVE ToLangchainMessages(_)
ToLangchainMessages(entries) ==
    IF entries = <<>> THEN <<>>
    ELSE LET entry == Head(entries)
             msgs == IF entry.actor = USER
                     THEN <<HumanMessage(entry.message_content)>>
                     ELSE IF entry.actor = AGENT
                     THEN <<AIMessage(entry.message_content,
                                      IF Falsy(entry.tool_calls) THEN <<>>
                                      ELSE entry.tool_calls.items)>>
                          \o (IF Falsy(entry.tool_responses) THEN <<>>
                              ELSE ToolMessagesOf(entry.tool_responses.items))
                     ELSE <<>>
         IN msgs \o ToLangchainMessages(Tail(entries))

\* load_session_history: the set of possible results
load_session_history(docs, session_id, limit) ==
    {ToLangchainMessages(Reverse(r))
     : r \in list_interaction_history_for_session(docs, session_id, limit, TRUE)}

----------------------------------------------------------------------------
(* Model service: services/llm_service.py *)

ModelText        == "AI says hello!"
ExceptionDetail  == "LLM exploded"          \* str(e) of a raised exception
ExceptionType    == "Exception"             \* type(e).__name__

\* s.strip() is non-empty: some token has a non-blank character
Blank == {"", " "}
Stripped(text) == Truthy(text) /\ \E i \in 1..Len(text) : text[i] \notin Blank

RECURSIVE FunctionCallParts(_)
FunctionCallParts(tool_calls) ==
    IF tool_calls = <<>> THEN <<>>
    ELSE <<[kind |-> "function_call", text |-> <<>>, name |-> Head(tool_calls).name]>>
         \o FunctionCallParts(Tail(tool_calls))

TextPart(text) == [kind |-> "text", text |-> text, name |-> Absent]
Content(role, parts) == [role |-> role, parts |-> parts]

\* the loop of _convert_lc_messages_to_vertex_content over the history
RECURSIVE ConvertHistory(_)
ConvertHistory(lc_messages) ==
    IF lc_messages = <<>> THEN <<>>
    ELSE LET lc_msg == Head(lc_messages)
             model_parts ==
                 (IF Stripped(lc_msg.content) THEN <<TextPart(lc_msg.content)>> ELSE <<>>)
                 \o FunctionCallParts(lc_msg.tool_calls)
             c == IF lc_msg.type = "human"
                  THEN <<Content("user", <<TextPart(lc_msg.content)>>)>>
                  ELSE IF lc_msg.type = "ai"
                  THEN (IF model_parts # <<>> THEN <<Content("model", model_parts)>> ELSE <<>>)
                  ELSE IF lc_msg.type = "tool"
                  THEN <<Content("function",
                                 <<[kind |-> "function_response", text |-> lc_msg.content,
                                    name |-> lc_msg.name]>>)>>
                  ELSE <<>>
         IN c \o ConvertHistory(Tail(lc_messages))

_convert_lc_messages_to_vertex_content(lc_messages, current_prompt) ==
    ConvertHistory(lc_messages)
    \o (IF Truthy(current_prompt) THEN <<Content("user", <<TextPart(current_prompt)>>)>> ELSE <<>>)

\* What the Vertex AI call does in one invocation of get_llm_response:
\* the module was never initialised, generate_content raises (after retries),
\* or it returns a response whose first candidate carries the given parts.
GenerateFailures == {"retry_error", "invalid_argument", "permission_denied",
                     "unexpected_exception"}
CandidateParts == {
    <<>>,
    <<"text">>,
    <<"text", "text">>,
    <<"text", "function_call">>,
    <<"function_call">>,
    <<"empty_text">>,
    <<"other">> }
LLMEnvs ==
    {[kind |-> "not_initialized", candidates |-> <<>>]}
    \cup {[kind |-> f, candidates |-> <<>>] : f \in GenerateFailures}
    \cup {[kind |-> "response", candidates |-> <<>>]}
    \cup {[kind |-> "response", candidates |-> <<p>>] : p \in CandidateParts}

RECURSIVE all_text_parts(_)
all_text_parts(parts) ==
    IF parts = <<>> THEN <<>>
    ELSE (IF Head(parts) = "text" THEN <<ModelText>> ELSE <<>>)
         \o all_text_parts(Tail(parts))

get_llm_response(prompt, conversation_history, env) ==
    IF env.kind = "not_initialized"
    THEN <<"Error:", "LLM service not available (Vertex AI not initialized).">>
    ELSE IF _convert_lc_messages_to_vertex_content(conversation_history, prompt) = <<>>
    THEN <<>>
    ELSE IF env.kind = "retry_error"
    THEN <<"Error:", "LLM call failed after retries", ExceptionDetail>>
    ELSE IF env.kind = "invalid_argument"
    THEN <<"Error:", "LLM request was invalid", ExceptionDetail,
           "Check model name and parameters.">>
    ELSE IF env.kind = "permission_denied"
    THEN <<"Error:", "Permission denied for LLM service. Check service account permissions for Vertex AI.">>
    ELSE IF env.kind = "unexpected_exception"
    THEN <<"Error:", "An unexpected error occurred with the LLM service", ExceptionType>>
    ELSE IF env.candidates = <<>>
    THEN <<"Error:", "LLM response was blocked or empty.">>
    ELSE LET parts == env.candidates[1]
         IN IF parts # <<>>
            THEN (IF all_text_parts(parts) # <<>> THEN all_text_parts(parts)
                  ELSE <<>>)
            ELSE <<>>

----------------------------------------------------------------------------
(* Chat endpoint: api/v1/endpoints/chat.py, handle_chat_message *)

Turns == 1..NumTurns
Users == {"u1"}
ClientSessions == {"s1"}
NoneStr == "<None>"
ChatQueries == {"", "User says hi"}
RequestModes == {Absent, "default", "hippocrates"}
HISTORY_LIMIT == 10
ERROR_SAVING_AGENT_RESPONSE == "error_saving_agent_response"

\* ChatRequest declares user_query_text and session_id; `mode` is read by the
\* handler but is no field of the model, so a request carries it only when
\* the caller passes an object that has it.
ChatRequests ==
    [user_query_text : ChatQueries,
     session_id : ClientSessions \cup {NoneStr},
     mode : RequestModes]

uuid4(t) == "uuid-" \o ToString(t)

QueryText(q) == IF q = "" THEN <<>> ELSE <<q>>

\* a handler that saves the agent record a second time
HandlerStepsSaveAgentTwice ==
    <<"save_user", "load_history", "get_response", "save_agent", "save_agent">>

\* the awaits of handle_chat_message, in program order; the handler runs
\* from one await to the next without yielding
HandlerSteps == <<"save_user", "load_history", "get_response", "save_agent">>

StepIndex(step) == CHOOSE i \in 1..Len(HandlerSteps) : HandlerSteps[i] = step
NextStep(step) ==
    IF StepIndex(step) < Len(HandlerSteps) THEN HandlerSteps[StepIndex(step) + 1]
    ELSE "returned"

IdleTurn ==
    [pc |-> "idle",
     request |-> [user_query_text |-> "", session_id |-> NoneStr, mode |-> Absent],
     user_id |-> NoneStr, session_id |-> NoneStr,
     pending |-> NoEntry,
     history |-> <<>>,             \* conversation_history_lc_messages, until its last use
     ai_text_response |-> <<>>,
     interaction_id |-> NoneStr,
     status |-> 0,
     agent_response_text |-> NoneText,
     llm |-> "not_called",          \* what the model call of this turn did
     user_message_sent |-> 0,       \* contents of the model call that carry the user
                                    \* message, until the handler returns
     saved |-> <<>>]                \* attempts at save_interaction: actor, outcome

\* return ChatResponse(...) once the last await is over: status 200
ChatResponse(turn) ==
    IF turn.pc = "returned"
    THEN [turn EXCEPT !.status = 200, !.agent_response_text = turn.ai_text_response,
                      !.user_message_sent = 0]
    ELSE turn

\* request entry: session_id = request.session_id or str(uuid.uuid4()), then
\* save_interaction for the user's message up to its await: current_time =
\* utcnow() is read and the document is built
ReceiveRequest(t, requests) ==
    /\ turns[t].pc = "idle"
    /\ \E request \in requests, user_id \in Users, current_time \in utcnow :
         LET session_id == IF request.session_id = NoneStr
                           THEN uuid4(t) ELSE request.session_id
         IN /\ clock' = current_time
            /\ turns' = [turns EXCEPT ![t] =
                     [@ EXCEPT !.pc = HandlerSteps[1],
                               !.request = request,
                               !.user_id = user_id,
                               !.session_id = session_id,
                               !.pending =
                                   entry_doc_data(
                                      InteractionHistoryCreate(
                                         session_id, user_id, USER,
                                         QueryText(request.user_query_text),
                                         NoneList, NoneList),
                                      current_time)]]
    /\ UNCHANGED <<store, g, gctl, tx>>

ActorOfStep(step) == IF step = "save_user" THEN USER ELSE AGENT
ContentOfStep(t, step) ==
    IF step = "save_user" THEN QueryText(turns[t].request.user_query_text)
    ELSE turns[t].ai_text_response

\* save_interaction -> create_interaction_history_entry for the agent's
\* message, first half: current_time = utcnow() and the document is built;
\* the add is awaited.
SaveInteractionBegin(t) ==
    /\ turns[t].pc \in {"save_user", "save_agent"}
    /\ turns[t].pending = NoEntry
    /\ \E current_time \in utcnow :
         /\ clock' = current_time
         /\ turns' = [turns EXCEPT ![t].pending =
                        entry_doc_data(
                           InteractionHistoryCreate(turns[t].session_id, turns[t].user_id,
                                                    ActorOfStep(turns[t].pc),
                                                    ContentOfStep(t, turns[t].pc),
                                                    NoneList, NoneList),
                           current_time)]
    /\ UNCHANGED <<store, g, gctl, tx>>

\* a write that replaces the newest document instead of adding one
collection_ref_set(docs, doc) ==
    IF docs = <<>> THEN <<doc>> ELSE [docs EXCEPT ![Len(docs)] = doc]

\* collection_ref.add: a new document, the others untouched
collection_ref_add(docs, doc) == Append(docs, doc)

\* second half: collection_ref.add succeeds and the entry is returned
SaveInteractionAdd(t) ==
    /\ turns[t].pc \in {"save_user", "save_agent"}
    /\ turns[t].pending # NoEntry
    /\ store' = collection_ref_add(store,
                                    InteractionHistory(doc_ref_id(store), turns[t].pending))
    /\ turns' = [turns EXCEPT ![t] = ChatResponse(
                   [@ EXCEPT !.pc = NextStep(turns[t].pc),
                             !.pending = NoEntry,
                             !.interaction_id = IF turns[t].pc = "save_agent"
                                                THEN doc_ref_id(store) ELSE @,
                             !.saved = Append(@, <<ActorOfStep(turns[t].pc), doc_ref_id(store)>>)])]
    /\ UNCHANGED <<clock, g, gctl, tx>>

\* a handler without the try/except around save_interaction
SaveInteractionFailPropagates(t) ==
    /\ turns[t].pc \in {"save_user", "save_agent"}
    /\ turns' = [turns EXCEPT ![t] =
                   [@ EXCEPT !.pc = "raised", !.status = 500, !.pending = NoEntry,
                             !.saved = Append(@, <<ActorOfStep(turns[t].pc), "failed">>)]]
    /\ UNCHANGED <<store, clock, g, gctl, tx>>

\* save_interaction raises (the store is unreachable): the handler logs it,
\* goes on, and for the agent record falls back to a fixed interaction id
SaveInteractionFail(t) ==
    /\ turns[t].pc \in {"save_user", "save_agent"}
    /\ turns' = [turns EXCEPT ![t] = ChatResponse(
                   [@ EXCEPT !.pc = NextStep(turns[t].pc),
                             !.pending = NoEntry,
                             !.interaction_id = IF turns[t].pc = "save_agent"
                                                THEN ERROR_SAVING_AGENT_RESPONSE ELSE @,
                             !.saved = Append(@, <<ActorOfStep(turns[t].pc), "failed">>)])]
    /\ UNCHANGED <<store, clock, g, gctl, tx>>

LoadHistory(t) ==
    /\ turns[t].pc = "load_history"
    /\ \E h \in load_session_history(store, turns[t].session_id, HISTORY_LIMIT) :
         turns' = [turns EXCEPT ![t] = [@ EXCEPT !.pc = NextStep("load_history"),
                                                 !.history = h]]
    /\ UNCHANGED <<store, clock, g, gctl, tx>>

\* load_session_history raises: proceed with no history
LoadHistoryFail(t) ==
    /\ turns[t].pc = "load_history"
    /\ turns' = [turns EXCEPT ![t] = [@ EXCEPT !.pc = NextStep("load_history"),
                                               !.history = <<>>]]
    /\ UNCHANGED <<store, clock, g, gctl, tx>>

\* `if request.mode == "hippocrates"` on a request without the attribute:
\* AttributeError leaves the handler, the framework answers 500
ModeAttributeError(t) ==
    /\ turns[t].pc = "get_response"
    /\ turns[t].request.mode = Absent
    /\ turns' = [turns EXCEPT ![t] = [@ EXCEPT !.pc = "raised", !.status = 500]]
    /\ UNCHANGED <<store, clock, g, gctl, tx>>

HippocratesOutcomes == {"answer", "raises"}

InvokeHippocrates(t) ==
    /\ turns[t].pc = "get_response"
    /\ turns[t].request.mode = "hippocrates"
    /\ \E o \in HippocratesOutcomes :
         turns' = [turns EXCEPT ![t] =
                     [@ EXCEPT !.pc = NextStep("get_response"),
                               !.history = <<>>,
                               !.llm = "hippocrates_" \o o,
                               !.ai_text_response =
                                   IF o = "answer" THEN <<"Hippocrates answer">>
                                   ELSE <<"Error:", "Hippocrates agent failed.", ExceptionDetail>>]]
    /\ UNCHANGED <<store, clock, g, gctl, tx>>

\* default mode, get_llm_response returns
GetLlmResponse(t, envs) ==
    /\ turns[t].pc = "get_response"
    /\ turns[t].request.mode \notin {Absent, "hippocrates"}
    /\ \E env \in envs :
         turns' = [turns EXCEPT ![t] =
                     [@ EXCEPT !.pc = NextStep("get_response"),
                               !.history = <<>>,
                               !.llm = IF /\ env.kind # "not_initialized"
                                          /\ _convert_lc_messages_to_vertex_content(
                                                 turns[t].history,
                                                 QueryText(turns[t].request.user_query_text)) = <<>>
                                       THEN "no_content"
                                       ELSE IF env.kind = "response" /\ env.candidates # <<>>
                                               /\ env.candidates[1] = <<"function_call">>
                                       THEN "function_call_only" ELSE env.kind,
                               !.user_message_sent =
                                   IF env.kind = "not_initialized" THEN 0
                                   ELSE LET contents ==
                                                _convert_lc_messages_to_vertex_content(
                                                    turns[t].history,
                                                    QueryText(turns[t].request.user_query_text))
                                        IN Cardinality(
                                             {i \in 1..Len(contents) :
                                                contents[i] =
                                                  Content("user", <<TextPart(QueryText(
                                                      turns[t].request.user_query_text))>>)}),
                               !.ai_text_response =
                                   get_llm_response(QueryText(turns[t].request.user_query_text),
                                                    turns[t].history, env)]]
    /\ UNCHANGED <<store, clock, g, gctl, tx>>

\* default mode, the call of get_llm_response raises
default_service_error_text(detail) ==
    <<"Error:", "The default AI service encountered a problem.", detail>>

GetLlmResponseRaises(t) ==
    /\ turns[t].pc = "get_response"
    /\ turns[t].request.mode \notin {Absent, "hippocrates"}
    /\ turns' = [turns EXCEPT ![t] =
                   [@ EXCEPT !.pc = NextStep("get_response"),
                               !.history = <<>>,
                             !.llm = "raised",
                             !.ai_text_response = default_service_error_text(ExceptionDetail)]]
    /\ UNCHANGED <<store, clock, g, gctl, tx>>

\* AgentState as run_agent_test builds it: keys it does not pass are unset
\* (read as None by state.get)
GraphInputs(user_input, current_history, patient_data_summary_for_drafting) ==
    [user_query |-> user_input,
     conversation_history |-> current_history,
     conversation_history_string |-> <<>>,
     llm_reasoner_decision |-> NoneStr,
     llm_reasoner_response_text |-> <<"<None>">>,
     tool_calls_generated |-> [none |-> TRUE, items |-> <<>>],
     executed_tool_responses_for_history |-> [none |-> TRUE, items |-> <<>>],
     rag_context |-> <<"<None>">>,
     patient_data_log_summary_for_drafting |-> patient_data_summary_for_drafting,
     draft_content |-> <<"<None>">>,
     final_response |-> <<"<None>">>]

IdleGraph == GraphInputs("", <<>>, <<"<None>">>)
IdleCtl ==
    [pc |-> "idle",
     llm |-> "simulate",            \* the model behind the nodes' model calls
     chain |-> 0,                   \* run_agent_test calls made so far
     visited |-> <<>>,              \* nodes run in this call, in order
     raised |-> "no",               \* exception that left the graph
     model_text |-> <<"<None>">>,   \* text of the latest model call
     model_tools |-> FALSE,         \* whether that call was given the tool schema
     updated_history_for_next_turn |-> <<>>,
     response_to_user |-> <<"<None>">>,
     history_to_display |-> <<>>]
IdleTool ==
    [pc |-> "idle", op |-> "none",
     tool_calls |-> [none |-> TRUE, items |-> <<>>],
     query |-> "", rag |-> "none", limit |-> 0, user_id |-> Absent,
     args |-> <<>>, responses |-> <<>>, result |-> <<>>]

InitChat ==
    /\ store = <<>>
    /\ clock = 0
    /\ turns = [t \in Turns |-> IdleTurn]
    /\ g = IdleGraph
    /\ gctl = IdleCtl
    /\ tx = IdleTool

\* one call of the endpoint, every request shape and every model outcome
NextChat ==
    \/ ReceiveRequest(1, ChatRequests)
    \/ SaveInteractionBegin(1)
    \/ SaveInteractionAdd(1)
    \/ SaveInteractionFail(1)
    \/ LoadHistory(1)
    \/ LoadHistoryFail(1)
    \/ ModeAttributeError(1)
    \/ InvokeHippocrates(1)
    \/ GetLlmResponse(1, LLMEnvs)
    \/ GetLlmResponseRaises(1)

SpecChat == InitChat /\ [][NextChat]_vars

\* concurrent calls of the endpoint on the shared store, in one session, default
\* mode, store and model answering (their failures are those of SpecChat)
ConcurrentRequests ==
    {r \in ChatRequests : r.mode = "default" /\ r.user_query_text # ""
                          /\ r.session_id = "s1"}
ConcurrentEnvs == {e \in LLMEnvs : e.kind = "response" /\ e.candidates = <<<<"text">>>>}

NextChatConcurrent ==
    \/ \E t \in Turns :
         \/ ReceiveRequest(t, ConcurrentRequests)
         \/ SaveInteractionBegin(t)
         \/ SaveInteractionAdd(t)
         \/ LoadHistory(t)
         \/ GetLlmResponse(t, ConcurrentEnvs)

SpecChatConcurrent == InitChat /\ [][NextChatConcurrent]_vars

----------------------------------------------------------------------------
(* Agent graph: agent/graph.py *)

RETRIEVE_KNOWLEDGE_BASE == "retrieve_knowledge_base"
get_tool_names == {RETRIEVE_KNOWLEDGE_BASE}
FETCH_PATIENT_DATA_LOG_SUMMARY == "fetch_patient_data_log_summary"
UNKNOWN_TOOL_CALL_ID == "unknown_tool_call_id"

\* a tool call as the model hands it over: a dict whose keys may be missing
ToolCallDict(name, query, patient_id, id) ==
    [name |-> name, args |-> [query |-> query, patient_id |-> patient_id], id |-> id]

ToolCallIds == {"call_1", "call_2", Absent}
ToolCallChoices ==
    {ToolCallDict(RETRIEVE_KNOWLEDGE_BASE, "sepsis", Absent, id) : id \in ToolCallIds}
    \cup {ToolCallDict(FETCH_PATIENT_DATA_LOG_SUMMARY, Absent, "p1", id) : id \in ToolCallIds}
    \cup {ToolCallDict("order_lab_test", Absent, Absent, id) : id \in ToolCallIds}

RECURSIVE SeqsUpTo(_, _)
SeqsUpTo(S, n) ==
    IF n = 0 THEN {<<>>}
    ELSE SeqsUpTo(S, n - 1)
         \cup {Append(q, x) : q \in {r \in SeqsUpTo(S, n - 1) : Len(r) = n - 1}, x \in S}

Batches == SeqsUpTo(ToolCallChoices, MaxBatch)

\* a response that forgets which call it answers
ToolResponseDictUnknownId(tool_call_id, name, content) ==
    [tool_call_id |-> UNKNOWN_TOOL_CALL_ID, name |-> name, content |-> content]

ToolResponseDict(tool_call_id, name, content) ==
    [tool_call_id |-> tool_call_id, name |-> name, content |-> content]

simulated_rag_output(query) ==
    <<"Simulated RAG context for query", query,
      "Symptoms include sweating, confusion, and tremors. Source: Clinical Guideline XYZ.">>
simulated_patient_summary(patient_id) ==
    <<"Simulated patient data log summary for", patient_id,
      "Recent vitals stable. Glucose levels monitored. No acute events in last 4 hours.">>
tool_not_found(tool_name) ==
    <<"Error:", "Tool", tool_name, "not found or simulated.">>

\* the for loop of tool_executor_node; acc carries tool_responses_for_history,
\* current_rag_context and patient_summary_data
RECURSIVE ExecuteToolCalls(_, _)
ExecuteToolCalls(tool_calls, acc) ==
    IF tool_calls = <<>> THEN acc
    ELSE LET tool_call == Head(tool_calls)
             tool_name == tool_call.name
             tool_call_id == Get(tool_call.id, UNKNOWN_TOOL_CALL_ID)
             step ==
               IF tool_name = RETRIEVE_KNOWLEDGE_BASE
               THEN LET out == simulated_rag_output(Get(tool_call.args.query, ""))
                    IN [responses |-> Append(acc.responses,
                                             ToolResponseDict(tool_call_id, tool_name, out)),
                        rag_context |-> out,
                        patient_summary |-> acc.patient_summary]
               ELSE IF tool_name = FETCH_PATIENT_DATA_LOG_SUMMARY
               THEN LET out == simulated_patient_summary(
                                   Get(tool_call.args.patient_id, "unknown_patient"))
                    IN [responses |-> Append(acc.responses,
                                             ToolResponseDict(tool_call_id, tool_name, out)),
                        rag_context |-> acc.rag_context,
                        patient_summary |-> out]
               ELSE [responses |-> Append(acc.responses,
                                          ToolResponseDict(tool_call_id, tool_name,
                                                           tool_not_found(tool_name))),
                     rag_context |-> acc.rag_context,
                     patient_summary |-> acc.patient_summary]
         IN ExecuteToolCalls(Tail(tool_calls), step)

\* tool_executor_node: the state update it returns
tool_executor_node(state) ==
    IF Falsy(state.tool_calls_generated)
    THEN [executed_tool_responses_for_history |-> ListOf(<<>>),
          rag_context |-> NoneText,
          patient_data_log_summary_for_drafting |-> NoneText]
    ELSE LET r == ExecuteToolCalls(state.tool_calls_generated.items,
                                   [responses |-> <<>>,
                                    rag_context |-> state.rag_context,
                                    patient_summary |-> state.patient_data_log_summary_for_drafting])
         IN [executed_tool_responses_for_history |-> ListOf(r.responses),
             rag_context |-> r.rag_context,
             patient_data_log_summary_for_drafting |-> r.patient_summary]

\* user queries, with the substrings of query.lower() the reasoner looks for
Q_EMPTY    == ""
Q_THANKS   == "Thanks, that was helpful!"
Q_SYMPTOMS == "What are the symptoms of hypoglycemia?"
Q_NOTE     == "Please draft a note about the symptoms."
Q_HANDOFF  == "Draft a handoff report for John Appleseed."
GraphQueries == {Q_EMPTY, Q_THANKS, Q_SYMPTOMS, Q_NOTE, Q_HANDOFF}

LowerContains(q) ==
    IF q = Q_SYMPTOMS THEN {"symptoms"}
    ELSE IF q = Q_NOTE THEN {"draft a note", "symptoms"}
    ELSE IF q = Q_HANDOFF THEN {"draft a handoff", "handoff report"}
    ELSE {}

\* s[:50]
Prefix50(q) == IF q = "" THEN "" ELSE "[:50]" \o q

\* _convert_lc_messages_to_sim_vertex_content
RECURSIVE SimConvertHistory(_)
SimConvertHistory(lc_messages) ==
    IF lc_messages = <<>> THEN <<>>
    ELSE LET msg == Head(lc_messages)
             c == IF msg.type = "human"
                  THEN <<Content("user", <<TextPart(msg.content)>>)>>
                  ELSE IF msg.type = "ai"
                  THEN (IF Truthy(msg.content)
                        THEN <<Content("model", <<TextPart(msg.content)>>)>> ELSE <<>>)
                  ELSE IF msg.type = "tool"
                  THEN <<Content("function",
                                 <<[kind |-> "function_response", text |-> msg.content,
                                    name |-> msg.name]>>)>>
                  ELSE <<>>
         IN c \o SimConvertHistory(Tail(lc_messages))

_convert_lc_messages_to_sim_vertex_content(lc_messages, current_prompt_text) ==
    SimConvertHistory(lc_messages)
    \o (IF current_prompt_text # ""
        THEN <<Content("user", <<TextPart(<<current_prompt_text>>)>>)>> ELSE <<>>)

LLMOutput(raised, text, tool_calls) ==
    [raised |-> raised, text |-> text, tool_calls |-> tool_calls]

\* history_plus_prompt_vertex_content[-1]['parts'][0]['text']: IndexError on
\* an empty list, KeyError when the last content is a function response
LastPartText(contents) ==
    IF contents = <<>> THEN LLMOutput("IndexError", NoneText, NoneList)
    ELSE IF contents[Len(contents)].parts[1].kind # "text"
    THEN LLMOutput("KeyError", NoneText, NoneList)
    ELSE LLMOutput("no", contents[Len(contents)].parts[1].text, NoneList)

JoinPrefix50(text) == [i \in 1..Len(text) |-> Prefix50(text[i])]

\* simulate_get_llm_response; prompt_of names the node whose system prompt
\* is passed ("Note Type:" occurs in the note-drafting prompt only,
\* "Information Retrieved from Knowledge Base" in the synthesis prompt only)
simulate_get_llm_response(prompt_of, contents, tools_schema_for_llm, decision_type, tool_call_query) ==
    IF tools_schema_for_llm /\ decision_type = "tool_call"
    THEN LLMOutput("no", NoneText,
                   ListOf(<<ToolCallDict(RETRIEVE_KNOWLEDGE_BASE,
                                         IF tool_call_query # "" THEN tool_call_query
                                         ELSE "Simulated knowledge query",
                                         Absent, "simulated_tool_call_id_001")>>))
    ELSE LET last == LastPartText(contents)
         IN IF last.raised # "no" THEN last
            ELSE IF decision_type \in {"draft_note_response", "draft_handoff_response"}
            THEN (IF prompt_of = "note_drafting"
                  THEN LLMOutput("no",
                          <<"DRAFT Nursing Note for Review (based on request:">> \o last.text
                          \o <<"S: Simulated subjective details from conversation.",
                               "O: Simulated objective details from conversation/logs.",
                               "A: Simulated brief assessment.",
                               "P: Simulated plan details.">>, NoneList)
                  ELSE LLMOutput("no",
                          <<"Simulated DRAFT content based on:">> \o JoinPrefix50(last.text)
                          \o <<"...">>, NoneList))
            ELSE (IF prompt_of = "rag_synthesis"
                  THEN LLMOutput("no",
                          <<"Synthesized answer:">> \o JoinPrefix50(last.text)
                          \o <<"... with RAG.">>, NoneList)
                  ELSE LLMOutput("no",
                          <<"Simulated LLM text response based on:">> \o JoinPrefix50(last.text)
                          \o <<"...">>, NoneList))

\* a model stub behind the same interface: any text, any tool calls
StubTexts == {NoneText, <<>>, <<"The knowledge base states...">>}
StubToolCalls ==
    {ToolCallDict(RETRIEVE_KNOWLEDGE_BASE, "sepsis", Absent, "call_1"),
     ToolCallDict(FETCH_PATIENT_DATA_LOG_SUMMARY, Absent, "p1", "call_2"),
     ToolCallDict("order_lab_test", Absent, Absent, Absent)}
\* a model that was given no tool schema has no tool to call
StubOutputs(tools_schema_for_llm) ==
    {LLMOutput("no", text, NoneList) : text \in StubTexts}
    \cup (IF tools_schema_for_llm
          THEN {LLMOutput("no", text, ListOf(b)) :
                   text \in StubTexts, b \in SeqsUpTo(StubToolCalls, MaxBatch)}
          ELSE {})

\* the outputs the model call of a node can produce under the given model
LLMOutputs(llm, prompt_of, contents, tools_schema_for_llm, decision_type, tool_call_query) ==
    IF llm = "simulate"
    THEN {simulate_get_llm_response(prompt_of, contents, tools_schema_for_llm,
                                    decision_type, tool_call_query)}
    ELSE StubOutputs(tools_schema_for_llm)

\* the simulated routing decision of llm_reasoner_node
sim_decision(current_user_query) ==
    LET has == LowerContains(current_user_query)
    IN IF has \cap {"draft a handoff", "draft handoff", "handoff report"} # {}
       THEN "draft_handoff"
       ELSE IF has \cap {"draft a note", "draft note"} # {}
       THEN "draft_note"
       ELSE IF has \cap {"symptoms", "protocol"} # {}
       THEN "tool_call"
       ELSE "direct_response"

RECURSIVE HistoryString(_)
HistoryString(history) ==
    IF history = <<>> THEN <<>>
    ELSE <<history[1].type>> \o history[1].content \o HistoryString(Tail(history))

\* a reasoner that keeps the model's text next to its tool calls
llm_reasoner_node_keeps_text(state, llm_output_simulated) ==
    [conversation_history_string |-> <<>>,
     llm_reasoner_decision |-> IF Falsy(llm_output_simulated.tool_calls)
                               THEN "direct_response" ELSE "tool_call",
     llm_reasoner_response_text |-> <<"Let me look that up.">>,
     tool_calls_generated |-> llm_output_simulated.tool_calls]

\* llm_reasoner_node, given the output of its model call: the state update
llm_reasoner_node(state, llm_output_simulated) ==
    LET decision == sim_decision(state.user_query)
        generated_tool_calls == llm_output_simulated.tool_calls
        direct_text_response == llm_output_simulated.text
        chs == HistoryString(state.conversation_history)
    IN IF decision = "draft_note"
       THEN [conversation_history_string |-> chs,
             llm_reasoner_decision |-> "draft_note",
             llm_reasoner_response_text |-> <<"Okay, I will start drafting that note for you.">>,
             tool_calls_generated |-> NoneList]
       ELSE IF decision = "draft_handoff"
       THEN [conversation_history_string |-> chs,
             llm_reasoner_decision |-> "draft_handoff",
             llm_reasoner_response_text |-> <<"Understood. I'll begin drafting the handoff report.">>,
             tool_calls_generated |-> NoneList]
       ELSE IF ~Falsy(generated_tool_calls)
       THEN [conversation_history_string |-> chs,
             llm_reasoner_decision |-> "tool_call",
             llm_reasoner_response_text |-> NoneText,
             tool_calls_generated |-> generated_tool_calls]
       ELSE [conversation_history_string |-> chs,
             llm_reasoner_decision |-> "direct_response",
             llm_reasoner_response_text |-> direct_text_response,
             tool_calls_generated |-> NoneList]

\* a router that sends every reasoner output to the tool executor
should_always_execute_tool(state) == "execute_tool"

\* the conditional edge out of llm_reasoner, with the node each label maps to
should_continue_to_tool_execution(state) ==
    IF state.llm_reasoner_decision = "tool_call" /\ ~Falsy(state.tool_calls_generated)
    THEN "execute_tool"
    ELSE IF state.llm_reasoner_decision = "draft_note" THEN "draft_note"
    ELSE IF state.llm_reasoner_decision = "draft_handoff" THEN "draft_handoff"
    ELSE "end_direct_response"

END == "END"
ConditionalEdges(label) ==
    IF label = "execute_tool" THEN "tool_executor"
    ELSE IF label = "draft_note" THEN "note_drafting"
    ELSE IF label = "draft_handoff" THEN "handoff_report"
    ELSE END

\* a graph whose drafting nodes hand over to the tool executor
EdgesDraftToTools(node) ==
    IF node \in {"note_drafting", "handoff_report"} THEN "tool_executor"
    ELSE IF node = "tool_executor" THEN "rag_synthesis"
    ELSE END

\* a graph whose tool executor ends the run
EdgesToolToEnd(node) == END

\* a graph whose synthesis node hands over to note drafting
EdgesSynthesisToDrafting(node) ==
    IF node = "tool_executor" THEN "rag_synthesis"
    ELSE IF node = "rag_synthesis" THEN "note_drafting"
    ELSE END

\* a graph whose tool executor hands back to the reasoner
EdgesToolToReasoner(node) == IF node = "tool_executor" THEN "llm_reasoner" ELSE END

\* a graph whose synthesis node hands back to the reasoner
EdgesLoopBack(node) ==
    IF node = "tool_executor" THEN "rag_synthesis"
    ELSE IF node = "rag_synthesis" THEN "llm_reasoner"
    ELSE END

\* add_edge: the fixed edges of build_agent_workflow
Edges(node) ==
    IF node = "tool_executor" THEN "rag_synthesis"
    ELSE END

\* the headings that mark a text as a draft
DraftHeadings == {"DRAFT Nursing Note for Review (based on request:",
                  "DRAFT Handoff Report for Review (based on request:"}

note_draft_error == <<"Error:", "Could not draft note based on the provided information and session history.">>
handoff_draft_error == <<"Error:", "Could not draft handoff report based on the provided information and session history.">>

\* note_drafting_node: the drafted text, given the output of its model call
drafted_note_text(user_query, llm_output_simulated) ==
    IF IsNone(llm_output_simulated.text) THEN note_draft_error
    ELSE <<"DRAFT Nursing Note for Review (based on request:", user_query,
           "S: Information from conversation history: ...",
           "O: Objective details from history: ...",
           "A: Assessment based on history: ...",
           "P: Plan based on history: ...",
           "(Simulated draft using template for query:", user_query>>

\* handoff_report_node: the drafted text
drafted_handoff_text(user_query, llm_output_simulated) ==
    IF IsNone(llm_output_simulated.text) THEN handoff_draft_error
    ELSE <<"DRAFT Handoff Report for Review (based on request:", user_query,
           "For Patient: ...",
           "Key Events: ... from conversation history ...",
           "Pending Tasks: ... from conversation history ...",
           "Critical Concerns: ... from conversation history ...",
           "(Simulated handoff report using template for query:", user_query>>

SORRY == <<"I'm sorry, I encountered an issue and couldn't process your request.">>

\* a response that surfaces the last tool response instead of the answer
response_to_user_tool_content(final_state) ==
    LET rs == final_state.executed_tool_responses_for_history.items
    IN IF rs # <<>> THEN rs[Len(rs)].content ELSE SORRY

\* run_agent_test: the response chosen from the final state
response_to_user(final_state) ==
    IF Truthy(final_state.draft_content) THEN final_state.draft_content
    ELSE IF Truthy(final_state.final_response) THEN final_state.final_response
    ELSE IF Truthy(final_state.llm_reasoner_response_text)
    THEN final_state.llm_reasoner_response_text
    ELSE SORRY

\* run_agent_test: the AIMessage appended to updated_history_for_next_turn
ai_response_message(final_state) ==
    IF Truthy(final_state.draft_content)
    THEN AIMessage(<<"Here's the draft note you requested:">> \o final_state.draft_content, <<>>)
    ELSE AIMessage(response_to_user(final_state), <<>>)

H_CHAT == <<HumanMessage(<<"I need to log some patient interactions.">>),
            AIMessage(<<"Okay, I'm ready.">>, <<>>)>>
H_TOOL == <<HumanMessage(<<Q_SYMPTOMS>>),
            AIMessage(<<>>, <<ToolCallDict(RETRIEVE_KNOWLEDGE_BASE, "symptoms", Absent, "call_1")>>),
            ToolMessage(<<"chunk">>, "call_1", RETRIEVE_KNOWLEDGE_BASE)>>
H_EMPTY_AI == <<AIMessage(<<>>, <<>>)>>
InitialHistories == {<<>>, H_CHAT, H_TOOL, H_EMPTY_AI}
PatientSummaries == {NoneText, <<"Patient John Doe, 45yo Male. Vitals stable.">>}
LLMs == {"simulate", "stub"}

\* run_agent_test up to agent_app.ainvoke(graph_inputs): the graph is entered
\* at its entry point llm_reasoner
EnterGraph(user_input, initial_history, summary, llm) ==
    /\ g' = GraphInputs(user_input, initial_history, summary)
    /\ gctl' = [IdleCtl EXCEPT !.pc = "llm_reasoner",
                               !.llm = llm,
                               !.chain = gctl.chain + 1,
                               !.updated_history_for_next_turn =
                                   Append(initial_history, HumanMessage(QueryText(user_input)))]
    /\ UNCHANGED <<store, clock, turns, tx>>

RunAgentTest ==
    /\ gctl.pc = "idle"
    /\ \E user_input \in GraphQueries, initial_history \in InitialHistories,
          summary \in PatientSummaries, llm \in LLMs :
         EnterGraph(user_input, initial_history, summary, llm)

\* main_test_suite: the next call is given the history the last one returned
RunNextAgentTest ==
    /\ gctl.pc = "returned"
    /\ gctl.chain < MaxChain
    /\ \E user_input \in GraphQueries, summary \in PatientSummaries :
         EnterGraph(user_input, gctl.history_to_display, summary, gctl.llm)

\* the tools argument of each node's model call: the reasoner passes the
\* schema of the available tools, every other node passes None
tools_schema_of(node) == node = "llm_reasoner"

Raise(node, exc) ==
    gctl' = [gctl EXCEPT !.pc = "raised", !.raised = exc,
                         !.visited = Append(@, node)]

LlmReasonerNode ==
    /\ gctl.pc = "llm_reasoner"
    /\ \E out \in LLMOutputs(gctl.llm, "llm_reasoner",
                             _convert_lc_messages_to_sim_vertex_content(
                                 g.conversation_history, g.user_query),
                             tools_schema_of("llm_reasoner"), sim_decision(g.user_query),
                             IF sim_decision(g.user_query) = "tool_call"
                             THEN "info on " \o g.user_query ELSE "") :
         IF out.raised # "no"
         THEN Raise("llm_reasoner", out.raised) /\ UNCHANGED g
         ELSE LET u == llm_reasoner_node(g, out)
                  state == [g EXCEPT !.conversation_history_string = u.conversation_history_string,
                                     !.llm_reasoner_decision = u.llm_reasoner_decision,
                                     !.llm_reasoner_response_text = u.llm_reasoner_response_text,
                                     !.tool_calls_generated = u.tool_calls_generated]
              IN /\ g' = state
                 /\ gctl' = [gctl EXCEPT
                               !.pc = ConditionalEdges(should_continue_to_tool_execution(state)),
                               !.visited = Append(@, "llm_reasoner"),
                               !.model_text = out.text,
                                      !.model_tools = tools_schema_of("llm_reasoner")]
    /\ UNCHANGED <<store, clock, turns, tx>>

ToolExecutorNode ==
    /\ gctl.pc = "tool_executor"
    /\ LET u == tool_executor_node(g)
       IN g' = [g EXCEPT !.executed_tool_responses_for_history =
                             u.executed_tool_responses_for_history,
                         !.rag_context = u.rag_context,
                         !.patient_data_log_summary_for_drafting =
                             u.patient_data_log_summary_for_drafting]
    /\ gctl' = [gctl EXCEPT !.pc = Edges("tool_executor"),
                            !.visited = Append(@, "tool_executor")]
    /\ UNCHANGED <<store, clock, turns, tx>>

RagSynthesisNode ==
    /\ gctl.pc = "rag_synthesis"
    /\ \E out \in LLMOutputs(gctl.llm, "rag_synthesis",
                             _convert_lc_messages_to_sim_vertex_content(
                                 g.conversation_history, g.user_query),
                             tools_schema_of("rag_synthesis"), "synthesis_response", "") :
         IF out.raised # "no"
         THEN Raise("rag_synthesis", out.raised) /\ UNCHANGED g
         ELSE /\ g' = [g EXCEPT !.final_response = out.text]
              /\ gctl' = [gctl EXCEPT !.pc = Edges("rag_synthesis"),
                                      !.visited = Append(@, "rag_synthesis"),
                                      !.model_text = out.text,
                                      !.model_tools = tools_schema_of("rag_synthesis")]
    /\ UNCHANGED <<store, clock, turns, tx>>

NoteDraftingNode ==
    /\ gctl.pc = "note_drafting"
    /\ \E out \in LLMOutputs(gctl.llm, "note_drafting",
                             _convert_lc_messages_to_sim_vertex_content(
                                 g.conversation_history, g.user_query),
                             tools_schema_of("note_drafting"), "draft_note_response", "") :
         IF out.raised # "no"
         THEN Raise("note_drafting", out.raised) /\ UNCHANGED g
         ELSE /\ g' = [g EXCEPT !.draft_content = drafted_note_text(g.user_query, out),
                                !.final_response = drafted_note_text(g.user_query, out)]
              /\ gctl' = [gctl EXCEPT !.pc = Edges("note_drafting"),
                                      !.visited = Append(@, "note_drafting"),
                                      !.model_text = out.text,
                                      !.model_tools = tools_schema_of("note_drafting")]
    /\ UNCHANGED <<store, clock, turns, tx>>

HandoffReportNode ==
    /\ gctl.pc = "handoff_report"
    /\ \E out \in LLMOutputs(gctl.llm, "handoff_report",
                             _convert_lc_messages_to_sim_vertex_content(
                                 g.conversation_history, g.user_query),
                             tools_schema_of("handoff_report"), "draft_handoff_response", "") :
         IF out.raised # "no"
         THEN Raise("handoff_report", out.raised) /\ UNCHANGED g
         ELSE /\ g' = [g EXCEPT !.draft_content = drafted_handoff_text(g.user_query, out),
                                !.final_response = drafted_handoff_text(g.user_query, out)]
              /\ gctl' = [gctl EXCEPT !.pc = Edges("handoff_report"),
                                      !.visited = Append(@, "handoff_report"),
                                      !.model_text = out.text,
                                      !.model_tools = tools_schema_of("handoff_report")]
    /\ UNCHANGED <<store, clock, turns, tx>>

\* run_agent_test after ainvoke returned the final state
FinishAgentTest ==
    /\ gctl.pc = END
    /\ gctl' = [gctl EXCEPT
                  !.pc = "returned",
                  !.response_to_user = response_to_user(g),
                  !.updated_history_for_next_turn = Append(@, ai_response_message(g)),
                  \* final_state.get('conversation_history', ...): the key is set
                  !.history_to_display = g.conversation_history]
    /\ UNCHANGED <<store, clock, turns, g, tx>>

InitGraph == InitChat

NextGraph ==
    \/ RunAgentTest
    \/ RunNextAgentTest
    \/ LlmReasonerNode
    \/ ToolExecutorNode
    \/ RagSynthesisNode
    \/ NoteDraftingNode
    \/ HandoffReportNode
    \/ FinishAgentTest

SpecGraph == InitGraph /\ [][NextGraph]_vars

----------------------------------------------------------------------------
(* Tools: agent/tools.py retrieve_knowledge_base_tool, and the batch
   executor of the graph applied to every batch *)

\* the attributes the Settings class declares (extra="ignore": no others exist)
SettingsFields ==
    {"APP_NAME", "API_V1_PREFIX", "LOG_LEVEL", "GCP_PROJECT_ID", "VERTEX_AI_REGION",
     "DEFAULT_LLM_MODEL_NAME", "RAG_GCS_BUCKET_NAME", "RAG_CHUNK_MAP_GCS_OBJECT_NAME",
     "VERTEX_AI_INDEX_ENDPOINT_ID", "VERTEX_AI_DEPLOYED_INDEX_ID",
     "FIREBASE_SERVICE_ACCOUNT_JSON_PATH"}

\* settings.<name>: reading an undeclared attribute raises AttributeError
settings(name) ==
    IF name \in SettingsFields THEN [raised |-> "no", name |-> name]
    ELSE [raised |-> "AttributeError", name |-> name]

ToolQueries == {"", "   ", "sepsis"}
Chunk(id) == [id |-> id, chunk_text |-> "chunk text", source_document_name |-> "guideline.pdf"]

\* what the retrieval backend is like when the tool is called
RagEnvs == {"uninitialized", "no_embedding", "search_error", "no_neighbors",
            "neighbors", "neighbors_without_details"}

\* rag_service.retrieve_relevant_chunks: every failure it meets yields []
retrieve_relevant_chunks(query_text, top_k, env) ==
    IF env = "uninitialized" THEN <<>>
    ELSE IF env = "no_embedding" THEN <<>>
    ELSE IF env = "search_error" THEN <<>>
    ELSE IF env = "neighbors" THEN <<Chunk("c1")>>
    ELSE <<>>

\* "error" in payload: the payload is a dict with the one key "error"
HasErrorKey(payload) == DOMAIN payload = {"error"}

\* the states of the backend in which retrieval fails
RagFailures == {"uninitialized", "no_embedding", "search_error"}

query_empty_error == <<[error |-> <<"Query cannot be empty for knowledge base search.">>]>>
internal_error(e) ==
    <<[error |-> <<"Failed to retrieve information from knowledge base due to an internal error:", e>>]>>

retrieve_knowledge_base_tool(query, env) ==
    IF query \in {"", "   "} THEN query_empty_error
    ELSE IF settings("RAG_TOP_K").raised # "no"
    THEN internal_error(settings("RAG_TOP_K").raised)
    ELSE LET retrieved_chunks == retrieve_relevant_chunks(query, settings("RAG_TOP_K"), env)
         IN IF retrieved_chunks = <<>> THEN <<>> ELSE retrieved_chunks

----------------------------------------------------------------------------
(* History endpoint: api/v1/endpoints/history.py *)

HTTPException(status_code, detail) ==
    [status_code |-> status_code, detail |-> detail, interactions |-> <<>>]
SessionHistoryResponse(session_id, interactions) ==
    [status_code |-> 200, detail |-> session_id, interactions |-> interactions]

\* InteractionOutput.model_config carries no from_attributes
InteractionOutput_from_attributes == FALSE

\* InteractionOutput.model_validate(doc) on an InteractionHistory instance:
\* an object that is neither a dict nor an InteractionOutput is read by its
\* attributes only under from_attributes, and is a ValidationError otherwise
model_validate(doc) ==
    IF InteractionOutput_from_attributes
    THEN [raises |-> FALSE,
          value |-> [interaction_id |-> doc.interaction_id, session_id |-> doc.session_id,
                     user_id |-> doc.user_id, timestamp |-> doc.timestamp,
                     actor |-> doc.actor, message_content |-> doc.message_content]]
    ELSE [raises |-> TRUE, value |-> doc]

\* the loop of get_session_history over the documents fetched, and what the
\* handler answers
RECURSIVE ForDocInHistoryDocs(_, _, _, _)
ForDocInHistoryDocs(history_docs, session_id, user_id, api_interactions) ==
    IF history_docs = <<>> THEN SessionHistoryResponse(session_id, api_interactions)
    ELSE IF Head(history_docs).user_id # user_id
    THEN HTTPException(403, "Not authorized to view this session history or session not found for this user.")
    ELSE IF model_validate(Head(history_docs)).raises
    THEN HTTPException(500, "Could not retrieve session history.")
    ELSE ForDocInHistoryDocs(Tail(history_docs), session_id, user_id,
             Append(api_interactions, model_validate(Head(history_docs)).value))

\* get_session_history: the set of possible answers
get_session_history(docs, session_id, user_id, limit) ==
    {ForDocInHistoryDocs(history_docs, session_id, user_id, <<>>)
     : history_docs \in list_interaction_history_for_session(docs, session_id, limit, FALSE)}

\* the records of a session written by its user, by another user, and a
\* record of another session
HistoryApiEntries ==
    {InteractionHistoryCreate("s1", "u1", USER, <<"hello">>, NoneList, NoneList),
     InteractionHistoryCreate("s1", "u2", USER, <<"Secret", "message">>, NoneList, NoneList),
     InteractionHistoryCreate("s2", "u2", USER, <<"other">>, NoneList, NoneList)}

----------------------------------------------------------------------------
(* Workflows: noah_agent_orchestration_groundwork/conceptual_workflows.py *)

\* the names bound in the module once it is imported
module_globals ==
    {"agents", "json", "run_patient_intake_workflow",
     "run_log_new_observation_workflow", "run_add_todo_task_workflow"}

\* run_add_todo_task_workflow: whether it raises, and the calls it made to
\* agents.call_todo_list_manager; task_response is what the manager answers.
\* A name that is neither a local nor a global of the module is a NameError
\* at the statement that first reads it.
run_add_todo_task_workflow(patient_id_for_task, task_description, priority, task_response) ==
    LET locals == [patient_id_for_task |-> patient_id_for_task,
                   task_description |-> task_description, priority |-> priority]
        Bound(name) == name \in DOMAIN locals \/ name \in module_globals
    IN IF ~Bound("patient_id")
       THEN [raised |-> "NameError", calls |-> <<>>, task_response |-> Absent]
       ELSE [raised |-> "no",
             calls |-> <<[action |-> "add_task",
                          payload |-> [description |-> locals.task_description,
                                       priority |-> locals.priority,
                                       patient_id |-> locals.patient_id]]>>,
             task_response |-> task_response]

\* the calls of the workflow and the answers of the to-do list manager
WorkflowArgs ==
    [patient_id_for_task : {"patient001", "patient002", "general_unit"},
     task_description : {"Follow up on lab results.", "Prepare discharge summary.",
                         "This task will fail to add."},
     priority : {"High", "Medium", "Low"},
     task_response : {"success", "error"}]

----------------------------------------------------------------------------
(* One call of an entry point: the tool executor, the knowledge-base tool,
   the history endpoint, a workflow *)

ToolCalled(op, tool_calls, query, rag) ==
    [pc |-> "called", op |-> op, tool_calls |-> tool_calls, query |-> query,
     rag |-> rag, limit |-> 0, user_id |-> Absent, args |-> <<>>,
     responses |-> <<>>, result |-> <<>>]

InitTool ==
    /\ clock = 0
    /\ turns = [t \in Turns |-> IdleTurn]
    /\ g = IdleGraph
    /\ gctl = IdleCtl
    /\ \/ /\ store = <<>>
          /\ tx \in {ToolCalled("tool_executor_node", tool_calls, "", "none") :
                        tool_calls \in {NoneList} \cup {ListOf(b) : b \in Batches}}
                    \cup {ToolCalled("retrieve_knowledge_base_tool", NoneList, query, env) :
                             query \in ToolQueries, env \in RagEnvs}
                    \cup {[ToolCalled("run_add_todo_task_workflow", NoneList, "", "none")
                           EXCEPT !.args = args] : args \in WorkflowArgs}
       \/ /\ store \in {StoreOf(docs) :
                           docs \in SeqsUpTo({entry_doc_data(e, ts) :
                                                e \in HistoryApiEntries, ts \in 0..MaxClock},
                                            MaxDocs)}
          /\ tx \in {[ToolCalled("get_session_history", NoneList, "s1", "none")
                      EXCEPT !.limit = limit, !.user_id = user_id]
                     : limit \in 1..MaxDocs, user_id \in {"u1", "u2"}}

ExecuteBatch ==
    /\ tx.pc = "called"
    /\ tx.op = "tool_executor_node"
    /\ tx' = [tx EXCEPT !.pc = "done",
                        !.responses =
                            tool_executor_node(
                                [IdleGraph EXCEPT !.tool_calls_generated = tx.tool_calls]
                            ).executed_tool_responses_for_history.items]
    /\ UNCHANGED <<store, clock, turns, g, gctl>>

InvokeRetrieveKnowledgeBaseTool ==
    /\ tx.pc = "called"
    /\ tx.op = "retrieve_knowledge_base_tool"
    /\ tx' = [tx EXCEPT !.pc = "done",
                        !.result = retrieve_knowledge_base_tool(tx.query, tx.rag)]
    /\ UNCHANGED <<store, clock, turns, g, gctl>>

GetSessionHistory ==
    /\ tx.pc = "called"
    /\ tx.op = "get_session_history"
    /\ \E response \in get_session_history(store, tx.query, tx.user_id, tx.limit) :
           tx' = [tx EXCEPT !.pc = "done", !.result = response]
    /\ UNCHANGED <<store, clock, turns, g, gctl>>

RunAddTodoTaskWorkflow ==
    /\ tx.pc = "called"
    /\ tx.op = "run_add_todo_task_workflow"
    /\ tx' = [tx EXCEPT !.pc = "done",
                        !.result = run_add_todo_task_workflow(
                                       tx.args.patient_id_for_task, tx.args.task_description,
                                       tx.args.priority, tx.args.task_response)]
    /\ UNCHANGED <<store, clock, turns, g, gctl>>

NextTool ==
    \/ ExecuteBatch
    \/ InvokeRetrieveKnowledgeBaseTool
    \/ GetSessionHistory
    \/ RunAddTodoTaskWorkflow

SpecTool == InitTool /\ [][NextTool]_vars

----------------------------------------------------------------------------
(* Reading a session back: agent/memory.py load_session_history *)

\* the interaction records a session may hold: a user message, an agent
\* message, an agent message that called two tools and logged their outputs
\* (a dict and an int), and a message of another session
HistoryEntries ==
    {InteractionHistoryCreate("s1", "u1", USER, <<"hello">>, NoneList, NoneList),
     InteractionHistoryCreate("s1", "u1", AGENT, <<ModelText>>, NoneList, NoneList),
     InteractionHistoryCreate("s1", "u1", AGENT, <<"looking", "up">>,
         ListOf(<<ToolCallDict(RETRIEVE_KNOWLEDGE_BASE, "q1", Absent, "call_1"),
                  ToolCallDict(FETCH_PATIENT_DATA_LOG_SUMMARY, "q2", Absent, "call_2")>>),
         ListOf(<<ToolResponse("call_1", RETRIEVE_KNOWLEDGE_BASE,
                               [kind |-> "dict", value |-> [result |-> <<"found">>]]),
                  ToolResponse("call_2", FETCH_PATIENT_DATA_LOG_SUMMARY,
                               [kind |-> "int", value |-> 42])>>)),
     InteractionHistoryCreate("s2", "u2", USER, <<"other">>, NoneList, NoneList)}

InitHistory ==
    /\ store \in {StoreOf(docs) :
                     docs \in SeqsUpTo({entry_doc_data(e, ts) :
                                          e \in HistoryEntries, ts \in 0..MaxClock},
                                      MaxDocs)}
    /\ clock = MaxClock
    /\ turns = [t \in Turns |-> IdleTurn]
    /\ g = IdleGraph
    /\ gctl = IdleCtl
    /\ tx \in {[ToolCalled("load_session_history", NoneList, "s1", "none")
                EXCEPT !.limit = limit] : limit \in 1..MaxDocs}

LoadSessionHistory ==
    /\ tx.pc = "called"
    /\ tx.op = "load_session_history"
    /\ \E messages \in load_session_history(store, tx.query, tx.limit) :
           tx' = [tx EXCEPT !.pc = "done", !.result = messages]
    /\ UNCHANGED <<store, clock, turns, g, gctl>>

NextHistory == LoadSessionHistory

SpecHistory == InitHistory /\ [][NextHistory]_vars

----------------------------------------------------------------------------
(* Properties *)

\* C1: every run of the agent graph ends with a response text that is
\* neither null nor empty: no run leaves the graph by an exception, and a run
\* that returned carries a non-empty response.
C1_TurnEndsWithResponse ==
    /\ gctl.pc # "raised"
    /\ gctl.pc = "returned" => Truthy(gctl.response_to_user)

\* C2: the executor answers a batch of N tool calls (N >= 0) with exactly N
\* responses in the order of the calls; the i-th response names the i-th
\* call's tool and carries its id (the fixed id "unknown_tool_call_id" when
\* the call has no id).
C2_OneResponsePerCallInOrder ==
    (tx.op = "tool_executor_node" /\ tx.pc = "done") =>
        LET calls == tx.tool_calls.items
        IN /\ Len(tx.responses) = Len(calls)
           /\ \A i \in 1..Len(calls) :
                /\ tx.responses[i].name = calls[i].name
                /\ tx.responses[i].tool_call_id = Get(calls[i].id, UNKNOWN_TOOL_CALL_ID)

C2_Witness ==
    /\ tx.op = "tool_executor_node"
    /\ tx.pc = "done"
    /\ Len(tx.tool_calls.items) = 2
    /\ tx.tool_calls.items[1].id = "call_2"
    /\ tx.tool_calls.items[2].id = "call_1"
    /\ tx.tool_calls.items[1].name # tx.tool_calls.items[2].name
    /\ tx.responses[1].tool_call_id = "call_2"
    /\ tx.responses[2].tool_call_id = "call_1"

\* C3: under every interleaving of concurrent chat turns, when a turn's USER
\* record and AGENT record are both in the store, the USER record was added
\* first and its timestamp is not later than the AGENT record's.
C3_UserRecordBeforeAgentRecord ==
    \A t \in Turns : \A i, j \in 1..Len(store) :
        LET saved == {turns[t].saved[k] : k \in 1..Len(turns[t].saved)}
        IN (/\ <<USER, store[i].interaction_id>> \in saved
            /\ <<AGENT, store[j].interaction_id>> \in saved)
           => /\ i < j
              /\ store[i].timestamp <= store[j].timestamp

C3_Witness ==
    \E t, u \in Turns :
        /\ t # u
        /\ turns[t].saved = <<<<USER, "doc1">>, <<AGENT, "doc3">>>>
        /\ turns[u].saved # <<>>
        /\ turns[u].saved[1] = <<USER, "doc2">>
        /\ store[1].timestamp = store[3].timestamp

C6_NoChunksGivesEmptyList ==
    (/\ tx.op = "retrieve_knowledge_base_tool"
     /\ tx.pc = "done"
     /\ tx.query \notin {"", "   "}
     /\ retrieve_relevant_chunks(tx.query, 3, tx.rag) = <<>>)
    => tx.result = <<>>

\* C7: whatever fails during a chat turn, the turn leaves at most one USER
\* record and at most one AGENT record in the store.
C7_AtMostOneRecordPerActor ==
    \A actor \in {USER, AGENT} :
        Cardinality({i \in 1..Len(store) : store[i].actor = actor}) <= 1

C7_Witness ==
    /\ turns[1].pc = "returned"
    /\ turns[1].llm = "raised"
    /\ Len(store) = 2
    /\ store[1].actor = USER
    /\ store[2].actor = AGENT

\* C8: when the model call raises, the turn still returns normally, its
\* response text carries no detail of the error, and the AGENT record is
\* persisted unless the store itself failed.
C8_ModelFailureGivesGenericText ==
    (turns[1].llm = "raised" /\ turns[1].pc \in {"returned", "raised"}) =>
        /\ turns[1].status = 200
        /\ ~Contains(turns[1].agent_response_text, ExceptionDetail)
        /\ (<<AGENT, "failed">> \notin {turns[1].saved[k] : k \in 1..Len(turns[1].saved)}
            => \E i \in 1..Len(store) : store[i].actor = AGENT)

\* C9: in default mode, when get_llm_response raises, the endpoint answers
\* HTTP 503.
C9_ModelFailureAnswers503 ==
    (turns[1].llm = "raised" /\ turns[1].pc \in {"returned", "raised"}) =>
        turns[1].status = 503

\* C10: whatever the model call does (text, function call only, empty,
\* blocked, failure), a chat turn that called the model answers 200 with a
\* non-empty response text.
C10_ResponseTextNeverBlank ==
    (turns[1].llm \notin {"not_called", "no_content",
                           "hippocrates_answer", "hippocrates_raises"}
     /\ turns[1].pc \in {"returned", "raised"}) =>
        /\ turns[1].status = 200
        /\ Truthy(turns[1].agent_response_text)

\* C11: when saving the USER record fails, the turn still proceeds: the model
\* is called, saving the AGENT record is attempted, and the caller gets the
\* response text with status 200.
C11_UserSaveFailureTurnProceeds ==
    LET saved == turns[1].saved
    IN (/\ saved # <<>>
        /\ saved[1] = <<USER, "failed">>
        /\ turns[1].pc \in {"returned", "raised"})
       => /\ turns[1].status = 200
          /\ turns[1].llm # "not_called"
          /\ Len(saved) = 2
          /\ saved[2][1] = AGENT
          /\ turns[1].agent_response_text = turns[1].ai_text_response

\* C12: when saving the AGENT record fails, the handler raises nothing: the
\* caller gets status 200 with the text computed for the turn, and only the
\* interaction id ("error_saving_agent_response") tells that no AGENT record
\* was stored.
C12_AgentSaveFailureKeepsResponse ==
    (<<AGENT, "failed">> \in {turns[1].saved[k] : k \in 1..Len(turns[1].saved)})
    => /\ turns[1].pc = "returned"
       /\ turns[1].status = 200
       /\ turns[1].agent_response_text = turns[1].ai_text_response
       /\ turns[1].interaction_id = ERROR_SAVING_AGENT_RESPONSE
       /\ \A i \in 1..Len(store) : store[i].actor # AGENT

C12_Witness ==
    /\ turns[1].pc = "returned"
    /\ turns[1].saved = <<<<USER, "doc1">>, <<AGENT, "failed">>>>
    /\ turns[1].llm = "response"
    /\ turns[1].agent_response_text = <<ModelText>>
    /\ turns[1].interaction_id = ERROR_SAVING_AGENT_RESPONSE
    /\ Len(store) = 1

\* C13: whatever the model returns to a drafting node (a text or none), the
\* text the node produces is labelled as a draft, as draft_content and as
\* final_response.
C13_DraftTextsAreLabelled ==
    (/\ gctl.visited # <<>>
     /\ gctl.visited[Len(gctl.visited)] \in {"note_drafting", "handoff_report"}
     /\ gctl.pc \in {END, "returned"})
    => /\ Truthy(g.draft_content) /\ g.draft_content[1] \in DraftHeadings
       /\ Truthy(g.final_response) /\ g.final_response[1] \in DraftHeadings

\* C14: a drafting node runs only after the reasoner decided on that draft,
\* its model call is given no tools, and a run that entered a drafting node
\* executes no tool: it goes from the drafting node straight to END.
C14_DraftingOnlyOnDraftIntentAndNoTools ==
    /\ gctl.pc = "note_drafting" => g.llm_reasoner_decision = "draft_note"
    /\ gctl.pc = "handoff_report" => g.llm_reasoner_decision = "draft_handoff"
    /\ \A i \in 1..Len(gctl.visited) :
         gctl.visited[i] \in {"note_drafting", "handoff_report"} =>
            /\ i = 2
            /\ Len(gctl.visited) = 2
            /\ gctl.visited[1] = "llm_reasoner"
            /\ g.llm_reasoner_decision =
                 (IF gctl.visited[i] = "note_drafting" THEN "draft_note" ELSE "draft_handoff")
            /\ gctl.pc \in {END, "returned", "raised"}
            /\ ~gctl.model_tools
            /\ Falsy(g.executed_tool_responses_for_history)

C14_Witness ==
    /\ gctl.pc = "returned"
    /\ gctl.visited = <<"llm_reasoner", "handoff_report">>
    /\ g.llm_reasoner_decision = "draft_handoff"
    /\ g.draft_content[1] \in DraftHeadings

\* C15: for a batch that holds a call to an unknown tool the executor does not
\* raise; that call's response carries an error payload with the key "error",
\* and every other call of the batch still gets its own response.
C15_UnknownToolGetsErrorPayload ==
    (tx.op = "tool_executor_node" /\ tx.pc = "done") =>
        LET calls == tx.tool_calls.items
        IN /\ Len(tx.responses) = Len(calls)
           /\ \A i \in 1..Len(calls) :
                /\ tx.responses[i].name = calls[i].name
                /\ calls[i].name \notin {RETRIEVE_KNOWLEDGE_BASE, FETCH_PATIENT_DATA_LOG_SUMMARY}
                     => HasErrorKey(tx.responses[i].content)

\* C16: when the retrieval backend fails (not initialised, no embedding, the
\* vector search raises) the knowledge-base tool returns an error payload,
\* which differs from what it returns when the search finds nothing.
C16_BackendFailureIsErrorShaped ==
    (/\ tx.op = "retrieve_knowledge_base_tool"
     /\ tx.pc = "done"
     /\ tx.query \notin {"", "   "}
     /\ tx.rag \in RagFailures)
    => /\ tx.result # <<>>
       /\ HasErrorKey(tx.result[1])
       /\ tx.result # retrieve_knowledge_base_tool(tx.query, "no_neighbors")

\* C17: load_session_history returns the `limit` most recent interactions of
\* the session in chronological order: the returned messages are those of
\* min(limit, number of session records) distinct records of the session, none
\* of them older than a record left out, in non-decreasing timestamp order;
\* a user record gives a human message, an agent record an AI message, and an
\* agent record with tool responses is followed at once by one tool message
\* per response, in order, carrying its tool_call_id and tool name.
C17_HistoryIsRecentChronological ==
    (tx.op = "load_session_history" /\ tx.pc = "done") =>
        LET idx == {i \in 1..Len(store) : store[i].session_id = tx.query}
            n == IF Cardinality(idx) < tx.limit THEN Cardinality(idx) ELSE tx.limit
            nresp(e) == IF e.actor = AGENT /\ ~e.tool_responses.none
                        THEN Len(e.tool_responses.items) ELSE 0
        IN \E o \in [1..n -> idx] :
              LET pos[k \in 1..(n + 1)] ==
                      IF k = 1 THEN 1 ELSE pos[k - 1] + 1 + nresp(store[o[k - 1]])
              IN /\ \A j, k \in 1..n : j < k =>
                        /\ o[j] # o[k]
                        /\ store[o[j]].timestamp <= store[o[k]].timestamp
                 /\ \A i \in idx : (\A k \in 1..n : o[k] # i) =>
                        \A k \in 1..n : store[i].timestamp <= store[o[k]].timestamp
                 /\ Len(tx.result) = pos[n + 1] - 1
                 /\ \A k \in 1..n :
                        LET e == store[o[k]]
                            m == tx.result[pos[k]]
                        IN /\ m.type = (IF e.actor = USER THEN "human" ELSE "ai")
                           /\ m.content = e.message_content
                           /\ \A r \in 1..nresp(e) :
                                  LET t == tx.result[pos[k] + r]
                                  IN /\ t.type = "tool"
                                     /\ t.tool_call_id = e.tool_responses.items[r].tool_call_id
                                     /\ t.name = e.tool_responses.items[r].name

\* a session with more records than the limit, of different times, whose
\* returned part holds an agent record with tool responses
C17_Witness ==
    /\ tx.op = "load_session_history"
    /\ tx.pc = "done"
    /\ Cardinality({i \in 1..Len(store) : store[i].session_id = tx.query}) > tx.limit
    /\ \E i, j \in 1..Len(store) :
          /\ store[i].session_id = tx.query
          /\ store[j].session_id = tx.query
          /\ store[i].timestamp < store[j].timestamp
          /\ i > j
    /\ \E k \in 1..Len(tx.result) : tx.result[k].type = "tool"
    /\ Len(tx.result) > 2

\* C18: the message store is append-only: no step of a chat turn, history
\* reads included, removes a record or changes the content, actor, timestamp
\* or any other field of a record already written; a step only adds records
\* after the existing ones.
C18_StoreIsAppendOnly ==
    [][/\ Len(store') >= Len(store)
       /\ \A i \in 1..Len(store) : store'[i] = store[i]]_vars

\* every turn has written both its records, read the history and returned
C18_Witness ==
    /\ Len(store) = 2 * NumTurns
    /\ \A t \in Turns : turns[t].pc = "returned" /\ Len(turns[t].saved) = 2

\* C19: get_session_history returns a session's interactions only when every
\* record of the session belongs to the caller: when some record of the
\* session has another user_id, the answer is 403 and carries no interaction.
C19_ForeignRecordGives403 ==
    (tx.op = "get_session_history" /\ tx.pc = "done"
     /\ \E i \in 1..Len(store) :
           store[i].session_id = tx.query /\ store[i].user_id # tx.user_id)
        => (tx.result.status_code = 403 /\ tx.result.interactions = <<>>)

\* C20: run_add_todo_task_workflow(patient_id, description, priority) calls
\* the to-do list manager exactly once, with action add_task and a payload
\* whose description, priority and patient_id are the workflow's arguments,
\* and returns normally whether the manager answers success or error.
C20_WorkflowAddsTaskOnce ==
    (tx.op = "run_add_todo_task_workflow" /\ tx.pc = "done") =>
        /\ tx.result.raised = "no"
        /\ Len(tx.result.calls) = 1
        /\ tx.result.calls[1].action = "add_task"
        /\ tx.result.calls[1].payload =
               [description |-> tx.args.task_description,
                priority |-> tx.args.priority,
                patient_id |-> tx.args.patient_id_for_task]

C22_DirectAnswerTextIsReturned ==
    /\ (gctl.visited = <<"llm_reasoner">> /\ g.llm_reasoner_decision = "tool_call")
          => gctl.pc = "tool_executor"
    /\ (gctl.visited # <<>> /\ g.llm_reasoner_decision = "direct_response") =>
          /\ gctl.visited = <<"llm_reasoner">>
          /\ gctl.pc \in {END, "returned"}
          /\ gctl.pc = "returned" => gctl.response_to_user = g.llm_reasoner_response_text

\* C22 amended: as above, but the returned text is the reasoner's answer text
\* only when that text is non-empty; a direct response without text (null or
\* empty) is answered with the fixed apology.
C22_DirectAnswerTextOrApology ==
    /\ (gctl.visited = <<"llm_reasoner">> /\ g.llm_reasoner_decision = "tool_call") =>
          /\ gctl.pc = "tool_executor"
          /\ ~Falsy(g.tool_calls_generated)
    /\ (gctl.visited # <<>> /\ g.llm_reasoner_decision = "direct_response") =>
          /\ gctl.visited = <<"llm_reasoner">>
          /\ gctl.pc \in {END, "returned"}
          /\ gctl.pc = "returned" =>
                gctl.response_to_user =
                    (IF Truthy(g.llm_reasoner_response_text)
                     THEN g.llm_reasoner_response_text ELSE SORRY)

\* a direct answer with text was returned as it is, by the simulated model
C22_Witness ==
    /\ gctl.pc = "returned"
    /\ gctl.llm = "simulate"
    /\ g.user_query = Q_THANKS
    /\ g.llm_reasoner_decision = "direct_response"
    /\ gctl.visited = <<"llm_reasoner">>
    /\ Truthy(g.llm_reasoner_response_text)
    /\ gctl.response_to_user = g.llm_reasoner_response_text

\* C23: when the reasoner's tool request names a tool that is not registered,
\* the run goes straight to its end, carrying the reasoner's text, and the
\* tool executor is not entered.
C23_UnregisteredToolSkipsExecutor ==
    (/\ gctl.visited # <<>>
     /\ ~Falsy(g.tool_calls_generated)
     /\ \E i \in 1..Len(g.tool_calls_generated.items) :
           g.tool_calls_generated.items[i].name \notin get_tool_names)
    => /\ gctl.pc \in {END, "returned"}
       /\ \A i \in 1..Len(gctl.visited) : gctl.visited[i] # "tool_executor"

C25_WritesOnlyAfterFinalText ==
    \A t \in Turns :
        (\E k \in 1..Len(turns[t].saved) : turns[t].saved[k][2] # "failed")
            => turns[t].pc \in {"save_agent", "returned"}

C28_ToolCallIdsUnique ==
    (tx.op = "tool_executor_node" /\ tx.pc = "done" /\ ~tx.tool_calls.none) =>
        LET calls == tx.tool_calls.items
        IN (\A i, j \in 1..Len(calls) :
               (i < j /\ calls[i].id # Absent /\ calls[j].id # Absent)
                   => calls[i].id # calls[j].id)
           => /\ Len(tx.responses) = Len(calls)
              /\ \A i, j \in 1..Len(tx.responses) :
                    i < j => tx.responses[i].tool_call_id # tx.responses[j].tool_call_id

\* C29: in default mode the current user message appears exactly once in the
\* message sequence sent to the model (the loaded history followed by the
\* prompt), whether or not saving the USER record succeeded.
C29_UserMessageSentOnce ==
    \A t \in Turns :
        (/\ turns[t].pc = "save_agent"
         /\ turns[t].request.mode = "default"
         /\ turns[t].llm = "response")
        => turns[t].user_message_sent = 1

\* C30: the history run_agent_test returns for the next turn is the input
\* history followed by this turn's user message and then the agent's
\* response message.
C30_ReturnedHistoryAccumulates ==
    gctl.pc = "returned" =>
        LET n == Len(g.conversation_history)
            h == gctl.history_to_display
        IN /\ Len(h) = n + 2
           /\ SubSeq(h, 1, n) = g.conversation_history
           /\ h[n + 1] = HumanMessage(QueryText(g.user_query))
           /\ h[n + 2].type = "ai"
           /\ h[n + 2].content = ai_response_message(g).content

====
